---- MODULE Spec2Model ----
(***************************************************************************)
(* The image conversion service of heic-imageconverter: the size-targeted  *)
(* compressor (compressToTargetSize, getOutputBuffer, optimizeWebP) and    *)
(* the conversion request handler (POST /api/convert).                     *)
(*                                                                         *)
(* The codec library (sharp, heic-convert) is a black box.  A buffer is    *)
(* modelled by its length in bytes; an encode that throws is the outcome   *)
(* EncodeFailed.  The code compares sizes in kilobytes (length / 1024)     *)
(* against targetSizeKB * 1.05, * 0.95 and * 1.2; the model compares the   *)
(* same quantities cross-multiplied, in integers.                          *)
(***************************************************************************)
EXTENDS Integers, Sequences, FiniteSets, TLC

VARIABLES
    targetSizeKB,   \* compressToTargetSize: the targetSizeKB argument
    format,         \* compressToTargetSize: the format argument
    searchPc,       \* "idle" | "probe" | "loop" | "done": position in compressToTargetSize
    low, high,      \* the quality interval of the binary search
    attempts,       \* the loop's attempt counter
    lastValid,      \* [buffer, quality]: lastValidBuffer (Null or a length), lastValidQuality
    lastSize,       \* lastSize (Infinity or a length)
    searchResult,   \* what the call returned or threw
    codec,          \* the outcomes the encoder may give for an encode not made before
    enc,            \* encode outcomes that are fixed: <<quality, shrunk>> -> outcome
    encodes,        \* history: number of getOutputBuffer calls made by this call
    minAchieved,    \* history: smallest length any encode of this call produced
    bestValidLen,   \* history: largest acceptable (<= 105%) length seen in the loop
    minOverLen,     \* history: smallest too-large length seen in the loop
    mono,           \* history: the outcomes seen fit a non-decreasing size function, no failure
    anyFailed,      \* history: some encode of this call threw
    lastCall,       \* history: [shrunk, webp, failed] of the latest getOutputBuffer call
    req,            \* POST: the request as sent (the raw form fields)
    form,           \* POST: file, format and the parseInt results
    stage,          \* POST: position in the handler
    response,       \* POST: the response returned
    opLog,          \* history: the codec operations the handler performed, in order
    encodePaths,    \* history: the encode branches the handler entered
    calls,          \* history: the getOutputBuffer calls of this call, in order
    files,          \* ImageConverter: the queued files
    convertedFiles, \* ImageConverter: the object URLs of the displayed results
    progress,       \* ImageConverter: the progress fraction
    error,          \* ImageConverter: the error message shown
    mounted,        \* ImageConverter: the component is mounted
    passes,         \* the handleConvert invocations: position, snapshot of files, converted
    objectUrls,     \* history: the object URLs created
    revoked,        \* history: the object URLs revoked
    sent,           \* history: the conversion requests each pass sent, in order
    options,        \* ImageConverter: outputFormat, quality, resize, targetFileSize
    useTargetSize   \* ConversionOptions: the 'Use Target File Size' checkbox

searchVars == <<targetSizeKB, format, searchPc, low, high, attempts, lastValid,
                lastSize, searchResult, codec, enc, encodes, minAchieved,
                bestValidLen, minOverLen, mono, anyFailed, lastCall, calls>>

handlerVars == <<req, form, stage, response, opLog, encodePaths>>

clientVars == <<files, convertedFiles, progress, error, mounted, passes, objectUrls,
                revoked, sent, options, useTargetSize>>

vars == <<searchVars, handlerVars, clientVars>>

(* ---------------------------------------------------------------------- *)
(* Program constants                                                      *)
(* ---------------------------------------------------------------------- *)
MinQuality == 1
MaxQuality == 100
MaxAttempts == 15
SmallTargetKB == 500
MediumTargetKB == 1000
SmallTargetCap == 60
MediumTargetCap == 80
ShrinkBelowQuality == 30
BytesPerKB == 1024

Infinity == 2147483647      \* JavaScript Infinity: above every buffer length
Null == -2                  \* JavaScript null
EncodeFailed == -1          \* getOutputBuffer threw

SupportedFormats == {"jpg", "png", "webp"}

(* ---------------------------------------------------------------------- *)
(* Inputs                                                                 *)
(* ---------------------------------------------------------------------- *)
\* Targets, one per ceiling class (< 500, < 1000, >= 1000).
SearchTargets == {200, 600, 1200}
SearchFormats == {"jpg", "png", "webp", "gif"}
\* Buffer lengths, as percentages of the target: under the band, the band's
\* edges (95, 105), the target itself, the last-resort edge (120), beyond it.
SizePercents == {50, 80, 95, 100, 105, 120, 130}
\* Qualities at which the encoder's outcome may be fixed before the call.
HintQualities == {1, 40, 45, 90}
HintPercents == {100}

LengthAt(T, p) == (T * BytesPerKB * p) \div 100
Outcomes(T) == {LengthAt(T, p) : p \in SizePercents} \cup {EncodeFailed}

Min2(a, b) == IF a <= b THEN a ELSE b
Max2(a, b) == IF a >= b THEN a ELSE b
NoEntries == [k \in {} |-> EncodeFailed]

(* ---------------------------------------------------------------------- *)
(* compressToTargetSize: the pure parts                                   *)
(* ---------------------------------------------------------------------- *)
\* initial ceiling: 60 below 500 KB, 80 below 1000 KB, else maxQuality
CappedHigh(T, maxQuality) ==
    IF T < SmallTargetKB THEN Min2(SmallTargetCap, maxQuality)
    ELSE IF T < MediumTargetKB THEN Min2(MediumTargetCap, maxQuality)
    ELSE maxQuality

\* initialSize <= targetSizeKB
MeetsTarget(len, T) == len <= T * BytesPerKB

\* currentSizeKB <= targetSizeKB * 1.05
WithinCeiling(len, T) == len * 100 <= T * BytesPerKB * 105

\* currentSizeKB >= targetSizeKB * 0.95
WithinFloor(len, T) == len * 100 >= T * BytesPerKB * 95

WithinLastResort_Margin30(len, T) == len * 10 <= T * BytesPerKB * 13

WithinLastResort_Always(len, T) == TRUE

\* finalSize <= targetSizeKB * 1.2
WithinLastResort(len, T) == len * 10 <= T * BytesPerKB * 12

\* while (low <= high && attempts < maxAttempts)
LoopGuard(lo, hi, n, maxAttempts) == lo <= hi /\ n < maxAttempts

Midpoint_Ceiling(lo, hi) == (lo + hi + 1) \div 2

\* Math.floor((low + high) / 2)
Midpoint(lo, hi) == (lo + hi) \div 2

\* acceptable but under the band: low = quality + 1; attempts++
BoundsOnUnderBand(quality, lo, hi, n) ==
    [low |-> quality + 1, high |-> hi, attempts |-> n + 1]

BoundsOnTooLarge_SkipsOne(quality, lo, hi, n) ==
    [low |-> lo, high |-> quality - 2, attempts |-> n + 1]

\* too large: high = quality - 1; attempts++
BoundsOnTooLarge(quality, lo, hi, n) ==
    [low |-> lo, high |-> quality - 1, attempts |-> n + 1]

\* a catch that retries the same quality, uncounted, when the error is the
\* unsupported format's
BoundsOnError_Uncounted(quality, lo, hi, n) ==
    [low |-> lo, high |-> quality - 1, attempts |-> n]

BoundsOnError_Retry(quality, lo, hi, n) ==
    IF format \in SupportedFormats
        THEN [low |-> lo, high |-> quality - 1, attempts |-> n + 1]
        ELSE [low |-> lo, high |-> hi, attempts |-> n]

\* catch: high = quality - 1; attempts++
BoundsOnError(quality, lo, hi, n) ==
    [low |-> lo, high |-> quality - 1, attempts |-> n + 1]

(* ---------------------------------------------------------------------- *)
(* getOutputBuffer / optimizeWebP                                         *)
(* ---------------------------------------------------------------------- *)
\* The targetSizeKB argument of getOutputBuffer at its three call sites in
\* compressToTargetSize: none passes it, so the parameter keeps its default.
TargetArgOfCall == Null

\* (targetSizeKB && targetSizeKB < 500) || quality < 30 || lastResort
Shrinks(targetArg, quality, lastResort) ==
    \/ (targetArg # Null /\ targetArg # 0 /\ targetArg < SmallTargetKB)
    \/ quality < ShrinkBelowQuality
    \/ lastResort

\* optimizeWebP: if (!targetSizeKB) direct conversion, else JPEG first
OptimizeWebPMode(targetArg) ==
    IF targetArg = Null \/ targetArg = 0 THEN "direct" ELSE "twoStage"

CallInfo(fmt, quality, lastResort) ==
    [shrunk |-> Shrinks(TargetArgOfCall, quality, lastResort),
     webp   |-> IF fmt = "webp" THEN OptimizeWebPMode(TargetArgOfCall) ELSE "none"]

\* One getOutputBuffer call as compressToTargetSize makes it: the quality and
\* lastResort arguments, whether the image was shrunk, and the interval
\* [low, high] of the search at the time of the call.
CallEntry(quality, lastResort) ==
    [quality |-> quality, lastResort |-> lastResort,
     shrunk |-> Shrinks(TargetArgOfCall, quality, lastResort),
     low |-> low, high |-> high, inLoop |-> searchPc = "loop" /\ ~lastResort]

EncKey(quality, lastResort) == <<quality, Shrinks(TargetArgOfCall, quality, lastResort)>>

\* The outcomes of getOutputBuffer(instance, fmt, quality, lastResort): an
\* unsupported format throws; the encoder is deterministic, so an encode made
\* before (or fixed in advance) gives the same outcome again.
EncodeOutcomes(fmt, quality, lastResort) ==
    IF fmt \notin SupportedFormats THEN {EncodeFailed}
    ELSE IF EncKey(quality, lastResort) \in DOMAIN enc
         THEN {enc[EncKey(quality, lastResort)]}
         ELSE codec

\* Only the ceiling quality (the probe) and the minimum quality (the last
\* resort) can be encoded twice in one call: the loop never repeats a midpoint.
Repeatable(quality) ==
    quality = CappedHigh(targetSizeKB, MaxQuality) \/ quality = MinQuality

\* Whether outcome o at `quality` fits a non-decreasing, never failing size
\* function together with everything seen so far.
FitsMonotone(quality, o) ==
    /\ o # EncodeFailed
    /\ bestValidLen <= o
    /\ o <= minOverLen
    /\ \A k \in DOMAIN enc :
          /\ enc[k] # EncodeFailed
          /\ (k[1] < quality => enc[k] <= o)
          /\ (k[1] > quality => o <= enc[k])

\* The history kept of one getOutputBuffer call.
Recorded(fmt, quality, lastResort, o) ==
    /\ encodes' = encodes + 1
    /\ minAchieved' = IF o = EncodeFailed THEN minAchieved ELSE Min2(minAchieved, o)
    /\ enc' = IF Repeatable(quality) /\ fmt \in SupportedFormats
                 THEN (EncKey(quality, lastResort) :> o) @@ enc
                 ELSE enc
    /\ mono' = (mono /\ FitsMonotone(quality, o))
    /\ anyFailed' = (anyFailed \/ o = EncodeFailed)
    /\ lastCall' = [shrunk |-> CallInfo(fmt, quality, lastResort).shrunk,
                     webp |-> CallInfo(fmt, quality, lastResort).webp,
                     failed |-> o = EncodeFailed]
    /\ calls' = Append(calls, CallEntry(quality, lastResort))

(* ---------------------------------------------------------------------- *)
(* compressToTargetSize: the steps                                        *)
(* ---------------------------------------------------------------------- *)
\* The state at the first encode: lines 27-39.
SearchEntry(fmt, T) ==
    [format |-> fmt, targetSizeKB |-> T, low |-> MinQuality,
     high |-> CappedHigh(T, MaxQuality), attempts |-> 0,
     lastValid |-> [buffer |-> Null, quality |-> MaxQuality],
     lastSize |-> Infinity]

NoResult == [kind |-> "none", len |-> Null, via |-> "none", reported |-> Null]
Returned(len, via) == [kind |-> "buffer", len |-> len, via |-> via, reported |-> Null]
Thrown(reported) == [kind |-> "error", len |-> Null, via |-> "none", reported |-> reported]

\* try { initialBuffer = getOutputBuffer(high); if (initialSize <= target) return }
InitialProbe ==
    /\ searchPc = "probe"
    /\ \E o \in EncodeOutcomes(format, high, FALSE) :
          /\ Recorded(format, high, FALSE, o)
          /\ IF o # EncodeFailed /\ MeetsTarget(o, targetSizeKB)
                THEN /\ searchPc' = "done"
                     /\ searchResult' = Returned(o, "probe")
                     /\ UNCHANGED lastSize
                ELSE /\ searchPc' = "loop"
                     /\ lastSize' = IF o = EncodeFailed THEN lastSize ELSE o
                     /\ UNCHANGED searchResult
    /\ UNCHANGED <<targetSizeKB, format, low, high, attempts, lastValid, codec,
                   bestValidLen, minOverLen>>
    /\ UNCHANGED <<handlerVars, clientVars>>

\* one iteration of the while loop
LoopAttempt ==
    /\ searchPc = "loop"
    /\ LoopGuard(low, high, attempts, MaxAttempts)
    /\ LET quality == Midpoint(low, high) IN
       \E o \in EncodeOutcomes(format, quality, FALSE) :
          /\ Recorded(format, quality, FALSE, o)
          /\ IF o = EncodeFailed
                THEN LET b == BoundsOnError(quality, low, high, attempts) IN
                     /\ low' = b.low /\ high' = b.high /\ attempts' = b.attempts
                     /\ searchPc' = "loop"
                     /\ UNCHANGED <<lastValid, lastSize, searchResult, bestValidLen,
                                    minOverLen>>
                ELSE IF WithinCeiling(o, targetSizeKB)
                THEN /\ lastValid' = [buffer |-> o, quality |-> quality]
                     /\ lastSize' = o
                     /\ bestValidLen' = Max2(bestValidLen, o)
                     /\ UNCHANGED minOverLen
                     /\ IF WithinFloor(o, targetSizeKB)
                           THEN /\ searchPc' = "done"
                                /\ searchResult' = Returned(o, "loop")
                                /\ UNCHANGED <<low, high, attempts>>
                           ELSE LET b == BoundsOnUnderBand(quality, low, high, attempts) IN
                                /\ low' = b.low /\ high' = b.high /\ attempts' = b.attempts
                                /\ searchPc' = "loop"
                                /\ UNCHANGED searchResult
                ELSE LET b == BoundsOnTooLarge(quality, low, high, attempts) IN
                     /\ low' = b.low /\ high' = b.high /\ attempts' = b.attempts
                     /\ searchPc' = "loop"
                     /\ minOverLen' = Min2(minOverLen, o)
                     /\ UNCHANGED <<lastValid, lastSize, searchResult, bestValidLen>>
    /\ UNCHANGED <<targetSizeKB, format, codec>>
    /\ UNCHANGED <<handlerVars, clientVars>>

\* if (lastValidBuffer) return lastValidBuffer
ReturnBest ==
    /\ searchPc = "loop"
    /\ ~LoopGuard(low, high, attempts, MaxAttempts)
    /\ lastValid.buffer # Null
    /\ searchPc' = "done"
    /\ searchResult' = Returned(lastValid.buffer, "best")
    /\ UNCHANGED <<targetSizeKB, format, low, high, attempts, lastValid, lastSize,
                   codec, enc, encodes, minAchieved, bestValidLen, minOverLen, mono,
                   anyFailed, lastCall, calls>>
    /\ UNCHANGED <<handlerVars, clientVars>>

\* the last resort: getOutputBuffer(minQuality, true); accept within 120%, else throw
LastResort ==
    /\ searchPc = "loop"
    /\ ~LoopGuard(low, high, attempts, MaxAttempts)
    /\ lastValid.buffer = Null
    /\ \E o \in EncodeOutcomes(format, MinQuality, TRUE) :
          /\ Recorded(format, MinQuality, TRUE, o)
          /\ searchResult' = IF o # EncodeFailed /\ WithinLastResort(o, targetSizeKB)
                                THEN Returned(o, "lastResort")
                                ELSE Thrown(lastSize)
    /\ searchPc' = "done"
    /\ UNCHANGED <<targetSizeKB, format, low, high, attempts, lastValid, lastSize,
                   codec, bestValidLen, minOverLen>>
    /\ UNCHANGED <<handlerVars, clientVars>>

SearchStep == InitialProbe \/ LoopAttempt \/ ReturnBest \/ LastResort

(* ---------------------------------------------------------------------- *)
(* POST /api/convert: the form fields                                     *)
(* ---------------------------------------------------------------------- *)
MaxFileSize == 50 * 1024 * 1024     \* MAX_FILE_SIZE
NaN == -999999                      \* JavaScript NaN (parseInt of a non-number)

\* A text is a tuple of characters.  formData.get gives null for an absent
\* field; parseInt(null) parses the text "null".
AbsentText == <<"n", "u", "l", "l">>

DigitChars == <<"0", "1", "2", "3", "4", "5", "6", "7", "8", "9">>
IsDigit(c) == \E i \in 1..10 : DigitChars[i] = c
DigitValue(c) == (CHOOSE i \in 1..10 : DigitChars[i] = c) - 1

\* The value of the longest prefix of digits of `text`, from accumulator acc;
\* NaN when the text does not start with a digit.
RECURSIVE DigitsValue(_, _, _)
DigitsValue(text, acc, seen) ==
    IF text # <<>> /\ IsDigit(Head(text))
        THEN DigitsValue(Tail(text), acc * 10 + DigitValue(Head(text)), TRUE)
        ELSE IF seen THEN acc ELSE NaN

RECURSIVE SkipSpaces(_)
SkipSpaces(text) ==
    IF text # <<>> /\ Head(text) = " " THEN SkipSpaces(Tail(text)) ELSE text

\* parseInt(text): leading blanks, a sign, then the digits up to the first
\* character that is not one.
ParseInt(text) ==
    LET t == SkipSpaces(text) IN
    IF t # <<>> /\ Head(t) = "-"
        THEN LET v == DigitsValue(Tail(t), 0, FALSE) IN IF v = NaN THEN NaN ELSE 0 - v
    ELSE IF t # <<>> /\ Head(t) = "+" THEN DigitsValue(Tail(t), 0, FALSE)
    ELSE DigitsValue(t, 0, FALSE)

\* JavaScript truthiness of a number: if (width && height)
Truthy(n) == n # NaN /\ n # 0

UpperChars == <<"A", "B", "C", "D", "E", "F", "G", "H", "I", "J", "K", "L", "M",
                "N", "O", "P", "Q", "R", "S", "T", "U", "V", "W", "X", "Y", "Z">>
LowerChars == <<"a", "b", "c", "d", "e", "f", "g", "h", "i", "j", "k", "l", "m",
                "n", "o", "p", "q", "r", "s", "t", "u", "v", "w", "x", "y", "z">>
ToLowerChar(c) ==
    IF \E i \in 1..26 : UpperChars[i] = c
        THEN LowerChars[CHOOSE i \in 1..26 : UpperChars[i] = c]
        ELSE c
ToLowerCase(text) == [i \in 1..Len(text) |-> ToLowerChar(text[i])]
EndsWith(text, suffix) ==
    /\ Len(text) >= Len(suffix)
    /\ SubSeq(text, Len(text) - Len(suffix) + 1, Len(text)) = suffix

IsHeicName_CaseSensitive(name) ==
    EndsWith(name, <<".", "h", "e", "i", "c">>) \/ EndsWith(name, <<".", "h", "e", "i", "f">>)

\* file.name.toLowerCase().endsWith('.heic') || ...endsWith('.heif')
IsHeicName(name) ==
    \/ EndsWith(ToLowerCase(name), <<".", "h", "e", "i", "c">>)
    \/ EndsWith(ToLowerCase(name), <<".", "h", "e", "i", "f">>)

ExceedsSizeLimit_Inclusive(size) == size >= MaxFileSize

\* file.size > MAX_FILE_SIZE
ExceedsSizeLimit(size) == size > MaxFileSize

\* !file || !format
MissingFileOrFormat(file, fmt) == file.kind = "absent" \/ fmt = "<absent>" \/ fmt = ""

UsesTargetSize_Truthy(tfs) == Truthy(tfs)

\* if (targetFileSize > 0)
UsesTargetSize(tfs) == tfs # NaN /\ tfs > 0

\* Number.prototype.toString of a non-negative integer (the client's
\* quality.toString())
RECURSIVE NumberToString(_)
NumberToString(n) ==
    IF n < 10 THEN <<DigitChars[n + 1]>>
    ELSE Append(NumberToString(n \div 10), DigitChars[(n % 10) + 1])

\* Math.round(quality * 0.7): the nearest integer, a half rounding up.  In
\* double precision 45 * 0.7 and 85 * 0.7 fall just below the half.
ProductBelowHalf == {45, 85}
RoundSevenTenths(quality) ==
    IF quality = NaN THEN NaN
    ELSE IF quality \in ProductBelowHalf THEN (7 * quality) \div 10
    ELSE (7 * quality + 5) \div 10

\* Math.max(Math.min(Math.round(quality * 0.7), 100), 1)
OptimizedQuality(quality) ==
    IF quality = NaN THEN NaN ELSE Max2(Min2(RoundSevenTenths(quality), 100), 1)

\* Math.round(Math.pow(2, quality / 10)) for 0 <= quality < 90:
\* 2^(quality div 10) times 2^(r/10), the latter to four decimals.
TenthPowersOfTwo == <<10000, 10718, 11487, 12311, 13195, 14142, 15157, 16245, 17411, 18661>>
RECURSIVE PowerOfTwo(_)
PowerOfTwo(k) == IF k = 0 THEN 1 ELSE 2 * PowerOfTwo(k - 1)
RoundPowTenth(quality) ==
    (PowerOfTwo(quality \div 10) * TenthPowersOfTwo[(quality % 10) + 1] * 2 + 10000)
        \div 20000

\* colors: quality < 90 ? Math.min(256, Math.round(Math.pow(2, quality / 10))) : 256
\* (a negative quality gives a power below one half, which rounds to 0)
PngColors(quality) ==
    IF quality # NaN /\ quality < 90
        THEN IF quality < 0 THEN 0 ELSE Min2(256, RoundPowTenth(quality))
        ELSE 256

\* The options the encoders accept: quality an integer in 1..100 for jpeg and
\* webp and in 0..100 for png; png colors an integer in 2..256.
OptionsAccepted(fmt, quality) ==
    LET q == OptimizedQuality(quality) IN
    IF fmt = "png" THEN q \in 0..100 /\ PngColors(quality) \in 2..256
    ELSE q \in 1..100

\* `image/${format === 'jpg' ? 'jpeg' : format}`
ContentType(fmt) == IF fmt = "jpg" THEN "image/jpeg" ELSE "image/" \o fmt

(* ---------------------------------------------------------------------- *)
(* POST /api/convert: the requests                                        *)
(* ---------------------------------------------------------------------- *)
NameUpperHeic == <<"I", "M", "G", ".", "H", "E", "I", "C">>
NameHeif == <<"a", ".", "h", "e", "i", "f">>
NameJpg == <<"c", ".", "j", "p", "g">>
NameHeicPng == <<"h", "e", "i", "c", ".", "p", "n", "g">>
SmallFileSize == 4096

NoFile == [kind |-> "absent", name |-> <<>>, size |-> 0]
TextFile == [kind |-> "text", name |-> <<>>, size |-> 0]
UploadedFile(name, size) == [kind |-> "file", name |-> name, size |-> size]

RequestFiles ==
    {NoFile, TextFile}
    \cup {UploadedFile(n, SmallFileSize) : n \in {NameUpperHeic, NameHeif, NameJpg, NameHeicPng}}
    \cup {UploadedFile(NameJpg, s) : s \in {MaxFileSize, MaxFileSize + 1, 60 * 1024 * 1024}}

RequestFormats == {"<absent>", "", "jpg", "png", "webp", "gif"}
QualityTexts == {AbsentText, <<"8", "0">>}
DimensionTexts == {AbsentText, <<"0">>, <<"-", "5">>, <<"1", "0", "0">>}
TargetTexts == {AbsentText, <<"0">>, <<"-", "5">>, <<"a", "b", "c">>, <<"2", "0", "0">>}

\* The qualities of the client's slider (min 1, max 100).
SliderQualities == 1..100

Requests ==
    [bodyOk : {TRUE}, file : RequestFiles, format : RequestFormats,
     quality : QualityTexts, width : DimensionTexts, height : DimensionTexts,
     targetFileSize : TargetTexts]
    \cup
    [bodyOk : {TRUE}, file : {UploadedFile(NameJpg, SmallFileSize)},
     format : SupportedFormats, quality : {NumberToString(q) : q \in SliderQualities},
     width : {AbsentText}, height : {AbsentText}, targetFileSize : {<<"0">>}]
    \cup
    [bodyOk : {FALSE}, file : {NoFile}, format : {"<absent>"},
     quality : {AbsentText}, width : {AbsentText}, height : {AbsentText},
     targetFileSize : {AbsentText}]

\* The encoders the handler's image may meet: one whose every encode gives the
\* same length (or fails), and one giving either of two lengths.
HandlerCodecs(T) ==
    {{LengthAt(T, p)} : p \in {50, 120, 130}}
    \cup {{EncodeFailed}, {LengthAt(T, 50), LengthAt(T, 130)}}
FixedQualityOutcomes == {SmallFileSize, EncodeFailed}

(* ---------------------------------------------------------------------- *)
(* POST /api/convert: the responses                                       *)
(* ---------------------------------------------------------------------- *)
NoResponse ==
    [status |-> 0, error |-> "", details |-> FALSE, stack |-> FALSE, contentType |-> ""]
ErrorResponse(status, message, details, stack) ==
    [status |-> status, error |-> message, details |-> details, stack |-> stack,
     contentType |-> "application/json"]
ImageResponse(fmt) ==
    [status |-> 200, error |-> "", details |-> FALSE, stack |-> FALSE,
     contentType |-> ContentType(fmt)]

NoForm ==
    [file |-> NoFile, format |-> "<absent>", quality |-> NaN, width |-> NaN,
     height |-> NaN, targetFileSize |-> NaN]

Respond_NotAbsorbing(r) == stage' = "resized" /\ response' = r

\* return NextResponse...: the handler is left
Respond(r) == stage' = "responded" /\ response' = r

\* the outer catch: { error: 'Failed to process request', details, stack }
GeneralError == ErrorResponse(500, "Failed to process request", TRUE, TRUE)

(* ---------------------------------------------------------------------- *)
(* POST /api/convert: the steps                                           *)
(* ---------------------------------------------------------------------- *)
\* await req.formData(); formData.get(...); parseInt(...)
ParseForm ==
    /\ stage = "received"
    /\ IF req.bodyOk
          THEN /\ form' = [file |-> req.file, format |-> req.format,
                           quality |-> ParseInt(req.quality),
                           width |-> ParseInt(req.width),
                           height |-> ParseInt(req.height),
                           targetFileSize |-> ParseInt(req.targetFileSize)]
               /\ stage' = "parsed"
               /\ UNCHANGED response
          ELSE /\ Respond(GeneralError)
               /\ UNCHANGED form
    /\ UNCHANGED <<req, opLog, encodePaths, searchVars, clientVars>>

\* if (!file || !format) 400; if (file.size > MAX_FILE_SIZE) 400
Validate ==
    /\ stage = "parsed"
    /\ IF MissingFileOrFormat(form.file, form.format)
          THEN Respond(ErrorResponse(400, "File and format are required", FALSE, FALSE))
       ELSE IF form.file.kind = "file" /\ ExceedsSizeLimit(form.file.size)
          THEN Respond(ErrorResponse(400, "File too large", TRUE, FALSE))
       ELSE stage' = "validated" /\ UNCHANGED response
    /\ UNCHANGED <<req, form, opLog, encodePaths, searchVars, clientVars>>

\* Buffer.from(await file.arrayBuffer()); the HEIC test on file.name.  A form
\* field that is a text has no arrayBuffer: the TypeError reaches the outer catch.
ReadFile ==
    /\ stage = "validated"
    /\ IF form.file.kind = "text"
          THEN Respond(GeneralError)
       ELSE IF IsHeicName(form.file.name)
          THEN stage' = "heic" /\ UNCHANGED response
       ELSE stage' = "input" /\ UNCHANGED response
    /\ UNCHANGED <<req, form, opLog, encodePaths, searchVars, clientVars>>

HeicFailure(details) == ErrorResponse(500, "Failed to convert HEIC image", details, FALSE)

\* convertHeicToJpeg: first heicConvertAsync
HeicDedicated ==
    /\ stage = "heic"
    /\ \E ok \in BOOLEAN :
          /\ opLog' = Append(opLog, IF ok THEN "heic-convert:ok" ELSE "heic-convert:failed")
          /\ stage' = IF ok THEN "heicVerify" ELSE "heicFallback"
    /\ UNCHANGED <<req, form, response, encodePaths, searchVars, clientVars>>

\* convertHeicToJpeg: catch (heicError): sharp(buffer).jpeg().toBuffer(); if it
\* fails too, 'Failed to convert HEIC image. Please try ...' is thrown
HeicGeneral ==
    /\ stage = "heicFallback"
    /\ \E ok \in BOOLEAN :
          /\ opLog' = Append(opLog, IF ok THEN "sharp-heic:ok" ELSE "sharp-heic:failed")
          /\ IF ok THEN stage' = "heicVerify" /\ UNCHANGED response
                   ELSE Respond(HeicFailure(TRUE))
    /\ UNCHANGED <<req, form, encodePaths, searchVars, clientVars>>

\* sharp(inputBuffer).metadata(): 'Converted image is invalid' when it fails
HeicVerify ==
    /\ stage = "heicVerify"
    /\ \E ok \in BOOLEAN :
          /\ opLog' = Append(opLog, IF ok THEN "verify:ok" ELSE "verify:failed")
          /\ IF ok THEN stage' = "input" /\ UNCHANGED response
                   ELSE Respond(HeicFailure(TRUE))
    /\ UNCHANGED <<req, form, encodePaths, searchVars, clientVars>>

\* sharp(inputBuffer, {...}); await sharpInstance.metadata()
CreateSharp ==
    /\ stage = "input"
    /\ \E ok \in BOOLEAN :
          /\ opLog' = Append(opLog, IF ok THEN "decode:ok" ELSE "decode:failed")
          /\ IF ok THEN stage' = "decoded" /\ UNCHANGED response
                   ELSE Respond(ErrorResponse(500, "Failed to process image", TRUE, FALSE))
    /\ UNCHANGED <<req, form, encodePaths, searchVars, clientVars>>

\* sharpInstance.resize({width, height, ...}) throws unless width and height
\* are positive integers.
ResizeOutcomes(width, height) ==
    IF width > 0 /\ height > 0 THEN {TRUE, FALSE} ELSE {FALSE}

\* if (width && height) sharpInstance.resize({width, height, ...})
Resize ==
    /\ stage = "decoded"
    /\ IF Truthy(form.width) /\ Truthy(form.height)
          THEN \E ok \in ResizeOutcomes(form.width, form.height) :
                  /\ opLog' = Append(opLog, IF ok THEN "resize:ok" ELSE "resize:failed")
                  /\ IF ok THEN stage' = "resized" /\ UNCHANGED response
                           ELSE Respond(ErrorResponse(500, "Failed to resize image", TRUE, FALSE))
          ELSE stage' = "resized" /\ UNCHANGED <<response, opLog>>
    /\ UNCHANGED <<req, form, encodePaths, searchVars, clientVars>>

\* if (targetFileSize > 0) compressToTargetSize(sharpInstance, format, targetFileSize)
EncodeToTarget ==
    /\ stage = "resized"
    /\ UsesTargetSize(form.targetFileSize)
    /\ LET e == SearchEntry(form.format, form.targetFileSize) IN
       /\ format' = e.format
       /\ targetSizeKB' = e.targetSizeKB
       /\ low' = e.low
       /\ high' = e.high
       /\ attempts' = e.attempts
       /\ lastValid' = e.lastValid
       /\ lastSize' = e.lastSize
    /\ codec' \in HandlerCodecs(form.targetFileSize)
    /\ searchPc' = "probe"
    /\ stage' = "encoding"
    /\ encodePaths' = encodePaths \cup {"target"}
    /\ opLog' = Append(opLog, "encode:target")
    /\ UNCHANGED <<req, form, response, searchResult, enc, encodes, minAchieved,
                   bestValidLen, minOverLen, mono, anyFailed, lastCall, calls,
                   clientVars>>

\* else: the fixed-quality switch (format).  The encoder rejects options outside
\* its ranges (the call throws); with accepted options the encode of the image
\* succeeds or fails.
EncodeAtQuality ==
    /\ stage = "resized"
    /\ ~UsesTargetSize(form.targetFileSize)
    /\ encodePaths' = encodePaths \cup {"quality"}
    /\ IF form.format \in SupportedFormats /\ ~OptionsAccepted(form.format, form.quality)
          THEN /\ opLog' = Append(opLog, "encode:rejected")
               /\ Respond(ErrorResponse(500, "Failed to convert image", TRUE, FALSE))
       ELSE IF form.format \in SupportedFormats
          THEN \E o \in FixedQualityOutcomes :
                  /\ opLog' = Append(opLog, IF o = EncodeFailed THEN "encode:failed"
                                                              ELSE "encode:quality")
                  /\ IF o = EncodeFailed
                        THEN Respond(ErrorResponse(500, "Failed to convert image", TRUE, FALSE))
                        ELSE Respond(ImageResponse(form.format))
          ELSE /\ Respond(ErrorResponse(400, "Unsupported format", FALSE, FALSE))
               /\ UNCHANGED opLog
    /\ UNCHANGED <<req, form, searchVars, clientVars>>

\* compressToTargetSize has returned (200) or thrown (conversionError: 500)
RespondAfterSearch ==
    /\ stage = "encoding"
    /\ searchPc = "done"
    /\ IF searchResult.kind = "buffer"
          THEN Respond(ImageResponse(form.format))
          ELSE Respond(ErrorResponse(500, "Failed to convert image", TRUE, FALSE))
    /\ UNCHANGED <<req, form, opLog, encodePaths, searchVars, clientVars>>

HandlerStep ==
    \/ ParseForm \/ Validate \/ ReadFile
    \/ HeicDedicated \/ HeicGeneral \/ HeicVerify
    \/ CreateSharp \/ Resize
    \/ EncodeToTarget \/ EncodeAtQuality \/ RespondAfterSearch

(* ---------------------------------------------------------------------- *)
(* ImageConverter: the client orchestrator                                *)
(* ---------------------------------------------------------------------- *)
\* The conversion handler is a black box here: a request ends with an ok
\* response, a response that is not ok, or a rejected fetch.
MaxFiles == 3       \* the queue holds at most this many files
MaxPasses == 2      \* at most this many presses of Convert that start a pass

TypeJpeg == <<"i", "m", "a", "g", "e", "/", "j", "p", "e", "g">>
TypeUpperPng == <<"I", "M", "A", "G", "E", "/", "P", "N", "G">>
TypeText == <<"t", "e", "x", "t", "/", "p", "l", "a", "i", "n">>
NameTxt == <<"n", ".", "t", "x", "t">>

\* validTypes of isValidImageType
ValidTypes ==
    {<<"i", "m", "a", "g", "e", "/", "j", "p", "e", "g">>,
     <<"i", "m", "a", "g", "e", "/", "p", "n", "g">>,
     <<"i", "m", "a", "g", "e", "/", "w", "e", "b", "p">>,
     <<"i", "m", "a", "g", "e", "/", "h", "e", "i", "c">>,
     <<"i", "m", "a", "g", "e", "/", "h", "e", "i", "f">>,
     <<"i", "m", "a", "g", "e", "/", "t", "i", "f", "f">>,
     <<"i", "m", "a", "g", "e", "/", "g", "i", "f">>,
     <<"i", "m", "a", "g", "e", "/", "b", "m", "p">>}

\* validTypes.includes(file.type.toLowerCase()) || name ends with .heic / .heif
IsValidImageType(file) ==
    ToLowerCase(file.type) \in ValidTypes \/ IsHeicName(file.name)

PhotoJpg == [name |-> NameJpg, type |-> TypeJpeg]
PhotoHeic == [name |-> NameUpperHeic, type |-> <<>>]
PhotoPng == [name |-> NameHeicPng, type |-> TypeUpperPng]
NotesTxt == [name |-> NameTxt, type |-> TypeText]

\* What one drop of files may hold.
UploadBatches == {<<PhotoJpg>>, <<NotesTxt>>, <<PhotoHeic, NotesTxt, PhotoPng>>}

FetchOutcomes == {"ok", "notOk", "rejected"}

\* newFiles.filter(file => isValidImageType(file))
RECURSIVE ValidFiles(_)
ValidFiles(newFiles) ==
    IF newFiles = <<>> THEN <<>>
    ELSE IF IsValidImageType(Head(newFiles))
        THEN <<Head(newFiles)>> \o ValidFiles(Tail(newFiles))
    ELSE ValidFiles(Tail(newFiles))

Range(seq) == {seq[k] : k \in 1..Len(seq)}

NoError == [kind |-> "none", name |-> <<>>]
SomeIgnored == [kind |-> "ignored", name |-> <<>>]      \* 'Some files were not in a supported ...'
PleaseUpload == [kind |-> "empty", name |-> <<>>]       \* 'Please upload at least one image file'
FailedToConvert(name) == [kind |-> "failed", name |-> name]   \* `Failed to convert ${file.name}`

\* ((i + 1) / totalFiles) * 100, kept as a fraction
ProgressAfter(i, totalFiles) == [num |-> i + 1, den |-> totalFiles]
NoProgress == [num |-> 0, den |-> 1]

\* URL.createObjectURL(blob): a URL unlike every other one; it is named here
\* by the pass and the file it was created for.
ObjectUrl(p, i) == [pass |-> p, i |-> i]

\* useState('jpg'), useState(80), useState({ width: 0, height: 0 }), useState(1000)
InitialOptions ==
    [outputFormat |-> "jpg", quality |-> 80, resize |-> [width |-> 0, height |-> 0],
     targetFileSize |-> 1000]

\* The state of the client a press of Convert finds: the options that the
\* closures of that render hold, and the checkbox of ConversionOptions.
ClientState(opts, toggle) == [options |-> opts, useTargetSize |-> toggle]

FormFields_HonoursToggle(file, client) ==
    [file |-> file,
     format |-> client.options.outputFormat,
     quality |-> NumberToString(client.options.quality),
     width |-> NumberToString(client.options.resize.width),
     height |-> NumberToString(client.options.resize.height),
     targetFileSize |-> IF client.useTargetSize
                           THEN NumberToString(client.options.targetFileSize)
                           ELSE <<"0">>]

\* convertFile: the fields appended to the FormData
FormFields(file, client) ==
    [file |-> file,
     format |-> client.options.outputFormat,
     quality |-> NumberToString(client.options.quality),
     width |-> NumberToString(client.options.resize.width),
     height |-> NumberToString(client.options.resize.height),
     targetFileSize |-> NumberToString(client.options.targetFileSize)]

\* What the user may type into the target size field, pick on the quality
\* slider and in the format list.
TargetSizeInputs == {<<>>, <<"2", "0", "0">>}
QualityInputs == {<<"5", "0">>, <<"8", "0">>}
FormatChoices == {"jpg", "webp"}

\* const numValue = value === '' ? 0 : parseInt(value)
NumValue(value) == IF value = <<>> THEN 0 ELSE ParseInt(value)

IdlePass ==
    [pc |-> "idle", files |-> <<>>, i |-> 0, converted |-> <<>>, outcomes |-> <<>>,
     client |-> ClientState(InitialOptions, FALSE)]

\* The loop index after file i has completed, whatever its outcome: the catch
\* inside the loop keeps the loop going.
IndexAfter_AbortsOnFailure(i, totalFiles, outcome) ==
    IF outcome = "ok" THEN i + 1 ELSE totalFiles

IndexAfter(i, totalFiles, outcome) == i + 1

\* The effect's cleanup: the URLs of the convertedFiles that are replaced (or
\* of the last convertedFiles at unmount) are revoked.
Cleanup(urls) == revoked' = revoked \cup Range(urls)

\* handleFileUpload(newFiles)
HandleFileUpload ==
    /\ mounted
    /\ \E newFiles \in UploadBatches :
          LET validFiles == ValidFiles(newFiles) IN
          /\ Len(files) + Len(validFiles) <= MaxFiles
          /\ error' = IF Len(validFiles) # Len(newFiles) THEN SomeIgnored ELSE error
          /\ files' = files \o validFiles
    /\ UNCHANGED <<convertedFiles, progress, mounted, passes, objectUrls, revoked, sent,
                   options, useTargetSize>>
    /\ UNCHANGED <<searchVars, handlerVars>>

\* A press of 'Convert Images': handleConvert up to its first await, the
\* fetch of convertFile(files[0]).  Nothing disables the button during a pass.
HandleConvert ==
    /\ mounted
    /\ IF Len(files) = 0
          THEN /\ error' = PleaseUpload
               /\ UNCHANGED <<convertedFiles, progress, passes, revoked, sent>>
          ELSE \E p \in 1..MaxPasses :
                  /\ passes[p].pc = "idle"
                  /\ \A q \in 1..(p - 1) : passes[q].pc # "idle"
                  /\ progress' = NoProgress
                  /\ error' = NoError
                  /\ convertedFiles' = <<>>
                  /\ Cleanup(convertedFiles)
                  /\ passes' = [passes EXCEPT ![p] =
                                   [pc |-> "awaiting", files |-> files, i |-> 0,
                                    converted |-> <<>>, outcomes |-> <<>>,
                                    client |-> ClientState(options, useTargetSize)]]
                  /\ sent' = [sent EXCEPT ![p] =
                                 <<[i |-> 0, file |-> files[1],
                                    fields |-> FormFields(files[1],
                                                  ClientState(options, useTargetSize))]>>]
    /\ UNCHANGED <<files, mounted, objectUrls, options, useTargetSize>>
    /\ UNCHANGED <<searchVars, handlerVars>>

\* The request of pass p completes: the rest of convertFile, the loop body's
\* try or catch, then either the next fetch or setConvertedFiles(converted).
\* State setters do nothing once the component is unmounted.
FetchCompletes ==
    \E p \in 1..MaxPasses, outcome \in FetchOutcomes :
       /\ passes[p].pc = "awaiting"
       /\ LET ps == passes[p]
              totalFiles == Len(ps.files)
              ok == outcome = "ok"
              url == ObjectUrl(p, ps.i)
              converted == IF ok THEN Append(ps.converted, url) ELSE ps.converted
              next == IndexAfter(ps.i, totalFiles, outcome)
          IN
          /\ objectUrls' = IF ok THEN objectUrls \cup {url} ELSE objectUrls
          /\ progress' = IF ok /\ mounted THEN ProgressAfter(ps.i, totalFiles) ELSE progress
          /\ error' = IF ~ok /\ mounted THEN FailedToConvert(ps.files[ps.i + 1].name)
                                        ELSE error
          /\ IF next < totalFiles
                THEN /\ passes' = [passes EXCEPT ![p] =
                                      [ps EXCEPT !.i = next, !.converted = converted,
                                                 !.outcomes = Append(ps.outcomes, ok)]]
                     /\ sent' = [sent EXCEPT ![p] =
                                    Append(@, [i |-> next, file |-> ps.files[next + 1],
                                               fields |-> FormFields(ps.files[next + 1],
                                                                     ps.client)])]
                     /\ UNCHANGED <<convertedFiles, revoked>>
                ELSE /\ passes' = [passes EXCEPT ![p] =
                                      [ps EXCEPT !.pc = "done", !.i = next,
                                                 !.converted = converted,
                                                 !.outcomes = Append(ps.outcomes, ok)]]
                     /\ IF mounted
                           THEN convertedFiles' = converted /\ Cleanup(convertedFiles)
                           ELSE UNCHANGED <<convertedFiles, revoked>>
                     /\ UNCHANGED sent
       /\ UNCHANGED <<files, mounted, options, useTargetSize>>
       /\ UNCHANGED <<searchVars, handlerVars>>

\* The component is torn down: the effect's cleanup runs a last time.  A pass
\* that is running keeps running.
Unmount ==
    /\ mounted
    /\ mounted' = FALSE
    /\ Cleanup(convertedFiles)
    /\ UNCHANGED <<files, convertedFiles, progress, error, passes, objectUrls, sent,
                   options, useTargetSize>>
    /\ UNCHANGED <<searchVars, handlerVars>>

UnchangedButOptions ==
    UNCHANGED <<files, convertedFiles, progress, error, mounted, passes, objectUrls,
                revoked, sent>>

\* the checkbox: setUseTargetSize(e.target.checked)
ToggleUseTargetSize ==
    /\ mounted
    /\ useTargetSize' = ~useTargetSize
    /\ UNCHANGED options
    /\ UnchangedButOptions
    /\ UNCHANGED <<searchVars, handlerVars>>

\* handleTargetSizeChange(value): the field is rendered while the checkbox is set
HandleTargetSizeChange ==
    /\ mounted
    /\ useTargetSize
    /\ \E value \in TargetSizeInputs :
          options' = [options EXCEPT !.targetFileSize = NumValue(value)]
    /\ UNCHANGED useTargetSize
    /\ UnchangedButOptions
    /\ UNCHANGED <<searchVars, handlerVars>>

\* the slider, rendered while the checkbox is not set: setQuality(parseInt(value))
SetQuality ==
    /\ mounted
    /\ ~useTargetSize
    /\ \E value \in QualityInputs : options' = [options EXCEPT !.quality = ParseInt(value)]
    /\ UNCHANGED useTargetSize
    /\ UnchangedButOptions
    /\ UNCHANGED <<searchVars, handlerVars>>

\* the format list: setOutputFormat(e.target.value)
SetOutputFormat ==
    /\ mounted
    /\ \E choice \in FormatChoices : options' = [options EXCEPT !.outputFormat = choice]
    /\ UNCHANGED useTargetSize
    /\ UnchangedButOptions
    /\ UNCHANGED <<searchVars, handlerVars>>

IdleClient ==
    /\ options = InitialOptions
    /\ useTargetSize = FALSE
    /\ files = <<>>
    /\ convertedFiles = <<>>
    /\ progress = NoProgress
    /\ error = NoError
    /\ mounted = TRUE
    /\ passes = [p \in 1..MaxPasses |-> IdlePass]
    /\ objectUrls = {}
    /\ revoked = {}
    /\ sent = [p \in 1..MaxPasses |-> <<>>]

IdleSearch ==
    /\ format = ""
    /\ targetSizeKB = 0
    /\ low = MinQuality
    /\ high = MaxQuality
    /\ attempts = 0
    /\ lastValid = [buffer |-> Null, quality |-> MaxQuality]
    /\ lastSize = Infinity
    /\ codec = {}
    /\ enc = NoEntries
    /\ searchPc = "idle"
    /\ searchResult = NoResult
    /\ encodes = 0
    /\ minAchieved = Infinity
    /\ bestValidLen = 0
    /\ minOverLen = Infinity
    /\ mono = TRUE
    /\ anyFailed = FALSE
    /\ lastCall = [shrunk |-> FALSE, webp |-> "none", failed |-> FALSE]
    /\ calls = <<>>

Init ==
    /\ req \in Requests
    /\ form = NoForm
    /\ stage = "received"
    /\ response = NoResponse
    /\ opLog = <<>>
    /\ encodePaths = {}
    /\ IdleClient
    /\ IdleSearch

Next == HandlerStep \/ SearchStep

Spec == Init /\ [][Next]_vars

(* ---------------------------------------------------------------------- *)
(* Specification of one call of compressToTargetSize                      *)
(* ---------------------------------------------------------------------- *)
HintsFor(T) ==
    {NoEntries} \cup
    {(EncKey(q, FALSE) :> LengthAt(T, p)) : q \in HintQualities, p \in HintPercents}

InitSearch ==
    /\ \E fmt \in SearchFormats, T \in SearchTargets :
          LET e == SearchEntry(fmt, T) IN
          /\ format = e.format
          /\ targetSizeKB = e.targetSizeKB
          /\ low = e.low
          /\ high = e.high
          /\ attempts = e.attempts
          /\ lastValid = e.lastValid
          /\ lastSize = e.lastSize
          /\ codec = Outcomes(T)
          /\ enc \in (IF fmt \in SupportedFormats THEN HintsFor(T) ELSE {NoEntries})
    /\ searchPc = "probe"
    /\ searchResult = NoResult
    /\ encodes = 0
    /\ minAchieved = Infinity
    /\ bestValidLen = 0
    /\ minOverLen = Infinity
    /\ mono = TRUE
    /\ anyFailed = FALSE
    /\ lastCall = [shrunk |-> FALSE, webp |-> "none", failed |-> FALSE]
    /\ calls = <<>>
    /\ req = [bodyOk |-> TRUE, file |-> NoFile, format |-> "<absent>",
              quality |-> AbsentText, width |-> AbsentText, height |-> AbsentText,
              targetFileSize |-> AbsentText]
    /\ form = NoForm
    /\ stage = "direct"
    /\ response = NoResponse
    /\ opLog = <<>>
    /\ encodePaths = {}
    /\ IdleClient

NextSearch == SearchStep

SpecSearch == InitSearch /\ [][NextSearch]_vars

(* ---------------------------------------------------------------------- *)
(* Specification of the client orchestrator                               *)
(* ---------------------------------------------------------------------- *)
InitClient ==
    /\ IdleClient
    /\ IdleSearch
    /\ req = [bodyOk |-> TRUE, file |-> NoFile, format |-> "<absent>",
              quality |-> AbsentText, width |-> AbsentText, height |-> AbsentText,
              targetFileSize |-> AbsentText]
    /\ form = NoForm
    /\ stage = "client"
    /\ response = NoResponse
    /\ opLog = <<>>
    /\ encodePaths = {}

NextClient == HandleFileUpload \/ HandleConvert \/ FetchCompletes \/ Unmount

SpecClient == InitClient /\ [][NextClient]_vars

(* ---------------------------------------------------------------------- *)
(* Specification of the client's conversion options                       *)
(* ---------------------------------------------------------------------- *)
\* The queues the options are exercised with: files already uploaded.
QueuedFiles == {<<PhotoJpg>>, <<PhotoHeic, PhotoPng>>}

InitOptions ==
    /\ files \in QueuedFiles
    /\ convertedFiles = <<>>
    /\ progress = NoProgress
    /\ error = NoError
    /\ mounted = TRUE
    /\ passes = [p \in 1..MaxPasses |-> IdlePass]
    /\ objectUrls = {}
    /\ revoked = {}
    /\ sent = [p \in 1..MaxPasses |-> <<>>]
    /\ options = InitialOptions
    /\ useTargetSize = FALSE
    /\ IdleSearch
    /\ req = [bodyOk |-> TRUE, file |-> NoFile, format |-> "<absent>",
              quality |-> AbsentText, width |-> AbsentText, height |-> AbsentText,
              targetFileSize |-> AbsentText]
    /\ form = NoForm
    /\ stage = "client"
    /\ response = NoResponse
    /\ opLog = <<>>
    /\ encodePaths = {}

NextOptions ==
    \/ ToggleUseTargetSize \/ HandleTargetSizeChange \/ SetQuality \/ SetOutputFormat
    \/ HandleConvert \/ FetchCompletes

SpecOptions == InitOptions /\ [][NextOptions]_vars

(* ---------------------------------------------------------------------- *)
(* Claims about compressToTargetSize (checked under SpecSearch)           *)
(* ---------------------------------------------------------------------- *)
AtMostPercent(len, T, p) == len * 100 <= T * BytesPerKB * p
AtLeastPercent(len, T, p) == len * 100 >= T * BytesPerKB * p

SearchDone == searchPc = "done"
ReturnedBuffer == SearchDone /\ searchResult.kind = "buffer"
TargetUnreachable == SearchDone /\ searchResult.kind = "error"

\* No encode failed, and some quality is known to encode to at most 105% of
\* the target.
AchievableQuality ==
    ~anyFailed /\ \E k \in DOMAIN enc :
        enc[k] # EncodeFailed /\ AtMostPercent(enc[k], targetSizeKB, 105)

\* No encode failed, and some quality in 1..maxQ is known to encode within the
\* 95%..105% band.
InBandQualityUpTo(maxQ) ==
    ~anyFailed /\ \E k \in DOMAIN enc :
        /\ k[1] \in MinQuality..maxQ
        /\ enc[k] # EncodeFailed
        /\ AtMostPercent(enc[k], targetSizeKB, 105)
        /\ AtLeastPercent(enc[k], targetSizeKB, 95)

ResultInBand ==
    /\ ReturnedBuffer
    /\ AtMostPercent(searchResult.len, targetSizeKB, 105)
    /\ AtLeastPercent(searchResult.len, targetSizeKB, 95)

\* C1 (as stated): for a supported format and an encoder with some quality
\* encoding to at most 1.05*T, a returned buffer has size S <= 1.05*T.
C1_ReturnedWithinCeiling ==
    (ReturnedBuffer /\ format \in SupportedFormats /\ AchievableQuality)
        => AtMostPercent(searchResult.len, targetSizeKB, 105)

\* C1 (amended): a returned buffer has size S <= 1.05*T unless it is the
\* last-resort attempt's buffer, whose size is S <= 1.2*T; for a size function
\* that is non-decreasing in quality, with no failing encode and some quality
\* encoding to at most 1.05*T, every returned buffer has S <= 1.05*T.
C1_ReturnedWithinTolerance ==
    ReturnedBuffer =>
        /\ AtMostPercent(searchResult.len, targetSizeKB, 120)
        /\ searchResult.via # "lastResort"
              => AtMostPercent(searchResult.len, targetSizeKB, 105)
        /\ (mono /\ AchievableQuality)
              => AtMostPercent(searchResult.len, targetSizeKB, 105)

\* The last resort returned a buffer between 105% and 120% of the target
\* although some quality encodes to at most 105%.
C1_Witness ==
    /\ ReturnedBuffer
    /\ searchResult.via = "lastResort"
    /\ AchievableQuality
    /\ ~AtMostPercent(searchResult.len, targetSizeKB, 105)

\* C2 (as stated): if some quality in 1..100 encodes within the band
\* [0.95*T, 1.05*T], the call returns a buffer whose size is within the band.
C2_InBandIfAnyExists ==
    (SearchDone /\ format \in SupportedFormats /\ InBandQualityUpTo(MaxQuality))
        => ResultInBand

\* C2 (amended): for a size function that is non-decreasing in quality with no
\* failing encode, if some quality between the minimum quality and the capped
\* ceiling (60 for T < 500, 80 for T < 1000, else 100) encodes within the band,
\* the call returns a buffer whose size is within the band.
C2_InBandWhenMonotone ==
    (/\ SearchDone
     /\ format \in SupportedFormats
     /\ mono
     /\ InBandQualityUpTo(CappedHigh(targetSizeKB, MaxQuality)))
        => ResultInBand

\* A monotone encoder with an in-band quality fixed in advance, found by the
\* loop after the probe and at least three attempts.
C2_Witness ==
    /\ SearchDone
    /\ mono
    /\ InBandQualityUpTo(CappedHigh(targetSizeKB, MaxQuality))
    /\ searchResult.via = "loop"
    /\ encodes >= 4

\* The encodes made by the search loop: all but the probe and the last resort.
LastResortRan ==
    SearchDone /\ (searchResult.via = "lastResort" \/ searchResult.kind = "error")
LoopEncodes ==
    IF searchPc = "probe" THEN 0
    ELSE encodes - 1 - (IF LastResortRan THEN 1 ELSE 0)

\* C3: the call terminates for every encoder behaviour: the loop makes at
\* most maxAttempts encodes, the call at most maxAttempts + 2, and a call that
\* has not returned or thrown can always take its next step.
C3_SearchTerminates ==
    /\ LoopEncodes <= MaxAttempts
    /\ encodes <= MaxAttempts + 2
    /\ (~SearchDone => ENABLED SearchStep)

\* A finished call on a non-monotone or failing encoder that used the probe,
\* the whole loop and the last resort.
C3_Witness ==
    /\ TargetUnreachable
    /\ anyFailed
    /\ LoopEncodes >= 6
    /\ encodes = LoopEncodes + 2

\* C4: the size reported by the target-unreachable error is the smallest size
\* any encode of the call achieved, and it is finite.
C4_ReportsSmallestAchieved ==
    TargetUnreachable =>
        /\ searchResult.reported # Infinity
        /\ searchResult.reported = minAchieved

(* ---------------------------------------------------------------------- *)
(* Claims about the conversion request handler (checked under Spec)       *)
(* ---------------------------------------------------------------------- *)
Responded == stage = "responded"
Logged(op) == \E i \in 1..Len(opLog) : opLog[i] = op
TargetRequested == form.targetFileSize # NaN /\ form.targetFileSize > 0

\* C5: a webp request with targetFileSize > 0 is answered by the two-stage
\* path: the JPEG target-size search first, then the WebP re-encode, and no
\* binary search over the WebP quality.
C5_WebPTwoStage ==
    (Responded /\ response.status = 200 /\ form.format = "webp" /\ TargetRequested)
        => (lastCall.webp = "twoStage" /\ format = "jpg")

\* C6: a request that reaches the encode stage enters exactly one encode
\* branch: the size-targeted compressor if and only if targetFileSize > 0,
\* whatever the quality, and the fixed-quality branch otherwise; never both.
C6_ExactlyOnePath ==
    /\ Cardinality(encodePaths) <= 1
    /\ (stage = "encoding" \/ encodePaths # {} \/ searchPc # "idle")
          => encodePaths = {IF TargetRequested THEN "target" ELSE "quality"}
    /\ searchPc # "idle" => encodePaths = {"target"}
    /\ (Logged("encode:quality") \/ Logged("encode:failed")) => encodePaths = {"quality"}

\* A request carrying a quality and a positive target was answered by the
\* size-targeted compressor.
C6_Witness ==
    /\ Responded
    /\ response.status = 200
    /\ form.quality = 80
    /\ form.targetFileSize = 200
    /\ encodePaths = {"target"}
    /\ encodes > 0

RequestInvalid ==
    /\ req.bodyOk
    /\ \/ req.file.kind = "absent"
       \/ req.format = "<absent>"
       \/ (req.file.kind = "file" /\ req.file.size > 52428800)

\* C7: a request without file or format, or with a file above 50 MB, is
\* answered 400 and nothing is decoded, resized or encoded for it; a missing
\* file or format gives 'File and format are required'; a file of exactly
\* 50 MB is not rejected for its size.
C7_ValidationRejects ==
    /\ RequestInvalid =>
          /\ opLog = <<>> /\ encodes = 0 /\ encodePaths = {} /\ searchPc = "idle"
          /\ stage \in {"received", "parsed", "responded"}
          /\ Responded => response.status = 400
          /\ (Responded /\ (req.file.kind = "absent" \/ req.format = "<absent>"))
                => response.error = "File and format are required"
          /\ (Responded /\ req.file.kind = "file" /\ req.format \in SupportedFormats)
                => response.error = "File too large"
    /\ (req.file.kind = "file" /\ req.file.size = 52428800)
          => response.error # "File too large"

\* A file one byte above 50 MB was rejected, nothing having been decoded.
C7_Witness ==
    /\ Responded
    /\ req.file.kind = "file"
    /\ req.file.size = 52428801
    /\ req.format = "jpg"
    /\ response.status = 400
    /\ opLog = <<>>

\* C8: a request whose format is present but not jpg, png or webp is rejected
\* with a 4xx status at validation, before any decode or encode work.
C8_UnsupportedFormatRejected ==
    (/\ req.bodyOk
     /\ req.file.kind = "file"
     /\ req.format \notin (SupportedFormats \cup {"<absent>", ""}))
        => /\ opLog = <<>> /\ encodes = 0
           /\ Responded => response.status \in 400..499

HeicNamed == req.file.kind = "file" /\ req.file.name \in {NameUpperHeic, NameHeif}
HeicDecodersFailed ==
    \/ (Logged("heic-convert:failed") /\ Logged("sharp-heic:failed"))
    \/ Logged("verify:failed")

\* C9: for a .heic/.heif file name (in any case) the dedicated decoder runs
\* first and the general codec library only after the dedicated one failed;
\* when both fail, or the converted bytes are unreadable, the request ends
\* with 500 'Failed to convert HEIC image' and nothing is resized or encoded.
C9_HeicDecoderOrder ==
    /\ (HeicNamed /\ opLog # <<>>)
          => opLog[1] \in {"heic-convert:ok", "heic-convert:failed"}
    /\ (HeicNamed /\ stage \in {"input", "decoded", "resized", "encoding"})
          => Logged("verify:ok")
    /\ \A i \in 1..Len(opLog) :
          opLog[i] \in {"sharp-heic:ok", "sharp-heic:failed"}
              => (i = 2 /\ opLog[1] = "heic-convert:failed")
    /\ Logged("heic-convert:ok") => ~Logged("sharp-heic:ok") /\ ~Logged("sharp-heic:failed")
    /\ HeicDecodersFailed =>
          /\ Responded
          /\ response.status = 500
          /\ response.error = "Failed to convert HEIC image"
          /\ opLog[Len(opLog)] \in {"sharp-heic:failed", "verify:failed"}
          /\ encodes = 0 /\ encodePaths = {}

\* An upper-case .HEIC file whose two decoders both failed.
C9_Witness ==
    /\ Responded
    /\ req.file.name = NameUpperHeic
    /\ opLog = <<"heic-convert:failed", "sharp-heic:failed">>
    /\ response.status = 500

\* C10: no error response of the handler carries a stack trace in its body.
C10_NoStackInErrors ==
    (Responded /\ response.status # 200) => ~response.stack

(* ---------------------------------------------------------------------- *)
(* Claims about the client orchestrator (checked under SpecClient)        *)
(* ---------------------------------------------------------------------- *)
PassIds == 1..MaxPasses
Running(p) == passes[p].pc = "awaiting"
InFlight == {p \in PassIds : Running(p)}
Succeeded(ps) == {k \in 1..Len(ps.outcomes) : ps.outcomes[k]}

\* C11: a pass over N queued files sends one request per file, in queue
\* order, whatever the outcomes of the earlier files; when it has finished it
\* holds one object URL per file that succeeded, in queue order, and these
\* are the results displayed.
C11_OncePerFileInOrder ==
    /\ \A p \in PassIds :
          LET ps == passes[p] IN
          /\ \A k \in 1..Len(sent[p]) :
                sent[p][k].i = k - 1 /\ sent[p][k].file = ps.files[k]
          /\ Len(sent[p]) = Len(ps.outcomes) + (IF Running(p) THEN 1 ELSE 0)
          /\ ps.pc = "done" =>
                /\ Len(sent[p]) = Len(ps.files)
                /\ Len(ps.converted) = Cardinality(Succeeded(ps))
                /\ \A k \in 1..Len(ps.converted) :
                      /\ ps.converted[k].pass = p
                      /\ (ps.converted[k].i + 1) \in Succeeded(ps)
                /\ \A j, k \in 1..Len(ps.converted) :
                      j < k => ps.converted[j].i < ps.converted[k].i
    /\ (mounted /\ convertedFiles # <<>>)
          => \E p \in PassIds : passes[p].pc = "done" /\ convertedFiles = passes[p].converted

\* Three files, the second failing: two results, displayed, and the failure of
\* the second file shown.
C11_Witness ==
    \E p \in PassIds :
       /\ passes[p].pc = "done"
       /\ passes[p].outcomes = <<TRUE, FALSE, TRUE>>
       /\ Len(sent[p]) = 3
       /\ convertedFiles = <<ObjectUrl(p, 0), ObjectUrl(p, 2)>>
       /\ mounted
       /\ error = FailedToConvert(passes[p].files[2].name)

\* C12: at every moment at most one conversion request of the client is in
\* flight, for every sequence of uploads and presses of Convert.
C12_AtMostOneInFlight == Cardinality(InFlight) <= 1

Displayed == IF mounted THEN Range(convertedFiles) ELSE {}
HeldByRunningPass == UNION {Range(passes[p].converted) : p \in InFlight}
Quiescent == ~mounted /\ InFlight = {}

\* C13: every object URL created is revoked once it is superseded or the
\* component is torn down (a URL not yet revoked is displayed or belongs to a
\* pass still running; with the component torn down and no pass running none
\* is left), and no URL is revoked while it is displayed.
C13_HandlesReleased ==
    /\ (objectUrls \ revoked) \subseteq (Displayed \cup HeldByRunningPass)
    /\ Quiescent => objectUrls \subseteq revoked
    /\ Displayed \cap revoked = {}

(* ---------------------------------------------------------------------- *)
(* More claims about the conversion request handler (checked under Spec)  *)
(* ---------------------------------------------------------------------- *)
FixedQualityRequest ==
    /\ encodePaths = {"quality"}
    /\ form.format \in SupportedFormats
    /\ form.quality \in 1..100

\* C14: on the fixed-quality path, for every quality in 1..100 and every
\* format in {jpg, png, webp}, the options derived from the quality are within
\* the encoder's ranges, and the request is answered 200 with the content type
\* of the requested format unless the encode of the image itself fails.
C14_FixedQualityEncodes ==
    FixedQualityRequest =>
        /\ OptimizedQuality(form.quality) \in 1..100
        /\ form.format = "png" => PngColors(form.quality) \in 2..256
        /\ ~Logged("encode:rejected")
        /\ (Responded /\ ~Logged("encode:failed"))
              => (response.status = 200 /\ response.contentType = ContentType(form.format))

(* ---------------------------------------------------------------------- *)
(* More claims about compressToTargetSize (checked under SpecSearch)      *)
(* ---------------------------------------------------------------------- *)
\* C15: every encode attempt of the search (probe, loop attempt, last resort)
\* encodes the image shrunk to 90% whenever the target is under 500 KB or the
\* quality of the attempt is below 30.
C15_ShrinksSmallTargets ==
    \A k \in 1..Len(calls) :
        (targetSizeKB < 500 \/ calls[k].quality < 30) => calls[k].shrunk

\* C16: when the loop ends without an in-band candidate but with an
\* acceptable one, the buffer returned is the acceptable loop attempt whose
\* size is the largest (the closest to 1.05*T from below), for every encoder.
C16_ReturnsBestAcceptable ==
    (ReturnedBuffer /\ searchResult.via = "best") => searchResult.len = bestValidLen

\* The outcome of the probe (the first call) and of the last resort.
OutcomeOf(quality, lastResort) ==
    IF format \in SupportedFormats THEN enc[EncKey(quality, lastResort)] ELSE EncodeFailed
ProbeOutcome == OutcomeOf(calls[1].quality, FALSE)
LastResortOutcome == OutcomeOf(calls[Len(calls)].quality, TRUE)
LastResortCalls == {k \in 1..Len(calls) : calls[k].lastResort}
ProbeAtMost(p) ==
    ProbeOutcome # EncodeFailed /\ AtMostPercent(ProbeOutcome, targetSizeKB, p)

\* What the last resort does once it runs: one call, the last one, at the
\* minimum quality with the image shrunk; its buffer is returned if and only
\* if its size is at most 1.2*T, otherwise the call throws.
LastResortDecides ==
    /\ Cardinality(LastResortCalls) <= 1
    /\ LastResortCalls # {} =>
          /\ LastResortCalls = {Len(calls)}
          /\ SearchDone
          /\ calls[Len(calls)].quality = 1
          /\ calls[Len(calls)].shrunk
          /\ IF LastResortOutcome # EncodeFailed
                 /\ AtMostPercent(LastResortOutcome, targetSizeKB, 120)
                THEN searchResult = Returned(LastResortOutcome, "lastResort")
                ELSE searchResult.kind = "error"
    /\ (ReturnedBuffer /\ searchResult.via = "lastResort") => LastResortCalls # {}
    /\ TargetUnreachable => LastResortCalls # {}

\* C17 (as stated): the last resort runs at most once and only when neither
\* the probe nor any loop attempt produced a size <= 1.05*T; its buffer is
\* returned if and only if its size is <= 1.2*T, otherwise the call throws.
C17_LastResortOnlyWithoutAcceptable ==
    /\ LastResortDecides
    /\ LastResortCalls # {} => (bestValidLen = 0 /\ ~ProbeAtMost(105))

\* C17 (amended): the last resort runs at most once and only when the probe
\* failed or gave a size above T and no loop attempt produced a size
\* <= 1.05*T; its buffer is returned if and only if its size is <= 1.2*T,
\* otherwise the call throws.
C17_LastResortOnlyWithoutCandidate ==
    /\ LastResortDecides
    /\ LastResortCalls # {} => (bestValidLen = 0 /\ ~ProbeAtMost(100))

\* The last resort ran, and its buffer was returned, after a probe whose
\* size was above T but within 1.05*T.
C17_Witness ==
    /\ ReturnedBuffer
    /\ searchResult.via = "lastResort"
    /\ ProbeAtMost(105)
    /\ ~ProbeAtMost(100)
    /\ LastResortCalls = {Len(calls)}

CeilingFor(T) == IF T < 500 THEN 60 ELSE IF T < 1000 THEN 80 ELSE 100

DecodeOps == {"heic-convert:ok", "heic-convert:failed", "sharp-heic:ok", "sharp-heic:failed",
              "verify:ok", "verify:failed", "decode:ok", "decode:failed"}
ResizeOps == {"resize:ok", "resize:failed"}
EncodeOps == {"encode:target", "encode:quality", "encode:failed", "encode:rejected"}
\* The operations that end their stage in failure (a failure of the dedicated
\* HEIC decoder alone does not: the decode stage goes on with the fallback).
StageFailures == {"sharp-heic:failed", "verify:failed", "decode:failed", "resize:failed",
                  "encode:failed", "encode:rejected"}
StageOf(op) == IF op \in DecodeOps THEN 1 ELSE IF op \in ResizeOps THEN 2 ELSE 3
OpsIn(ops) == {k \in 1..Len(opLog) : opLog[k] \in ops}

\* C19: a request goes through validation, decode, resize and encode in this
\* order, each at most once and none before the request is validated; the
\* failure of a stage ends the request with an error response and nothing runs
\* after it; a request that has been answered takes no further step, one that
\* has not always can, and a 200 is given only after a successful encode.
C19_StagesInOrder ==
    /\ stage \in {"received", "parsed"} => (opLog = <<>> /\ searchPc = "idle")
    /\ \A j, k \in 1..Len(opLog) : j < k => StageOf(opLog[j]) <= StageOf(opLog[k])
    /\ Cardinality(OpsIn(ResizeOps)) <= 1
    /\ Cardinality(OpsIn(EncodeOps)) <= 1
    /\ Cardinality(OpsIn({"decode:ok", "decode:failed"})) <= 1
    /\ OpsIn(ResizeOps \cup EncodeOps) # {} => Logged("decode:ok")
    /\ searchPc \in {"probe", "loop"} => stage = "encoding"
    /\ encodes > 0 => Logged("encode:target")
    /\ \A k \in OpsIn(StageFailures) :
          k = Len(opLog) /\ Responded /\ response.status = 500 /\ encodes = 0
    /\ Responded <=> response # NoResponse
    /\ Responded => ~ENABLED Next
    /\ ~Responded => ENABLED Next
    /\ (Responded /\ response.status = 200) =>
          \/ opLog[Len(opLog)] = "encode:quality"
          \/ (opLog[Len(opLog)] = "encode:target" /\ searchResult.kind = "buffer")

\* A HEIC request decoded by the fallback, resized, encoded to a target by
\* several attempts and answered 200.
C19_Witness ==
    /\ Responded
    /\ response.status = 200
    /\ opLog = <<"heic-convert:failed", "sharp-heic:ok", "verify:ok", "decode:ok",
                 "resize:ok", "encode:target">>
    /\ encodes >= 3

BothPositive ==
    /\ form.width # NaN /\ form.width > 0
    /\ form.height # NaN /\ form.height > 0
PastResize == stage \in {"resized", "encoding"} \/ encodePaths # {} \/ OpsIn(ResizeOps) # {}

\* C20: the resize step is applied if and only if width and height are both
\* positive; when width or height is zero, absent, unparsable or negative no
\* resize is applied and a decoded request proceeds to the encode.
C20_ResizeIffBothPositive ==
    /\ OpsIn(ResizeOps) # {} => BothPositive
    /\ (PastResize /\ BothPositive) => OpsIn(ResizeOps) # {}
    /\ (Responded /\ Logged("decode:ok") /\ ~BothPositive) => encodePaths # {}

(* ---------------------------------------------------------------------- *)
(* Claims about the progress of a pass (checked under SpecClient)         *)
(* ---------------------------------------------------------------------- *)
\* The only pass started so far, with the component still mounted.
SinglePass == mounted /\ passes[1].pc # "idle" /\ passes[2].pc = "idle"
Completed(p) == Len(passes[p].outcomes)

\* C21: during a pass over N files the progress is (i+1)/N once the i-th file
\* (from 0) has completed, whether it succeeded or failed, so it never
\* decreases during the pass and is 100% once the pass has finished.
C21_ProgressAfterEachFile ==
    SinglePass =>
        /\ Completed(1) > 0
              => progress = [num |-> Completed(1), den |-> Len(passes[1].files)]
        /\ passes[1].pc = "done" => progress.num = progress.den

(* ---------------------------------------------------------------------- *)
(* Claims about encoder failures in the search (checked under SpecSearch) *)
(* ---------------------------------------------------------------------- *)
\* This step made an encode, and the encode threw.
FailedEncodeStep == encodes' = encodes + 1 /\ lastCall'.failed
LoopRunning == searchPc = "loop" /\ low <= high /\ attempts < 15

\* What a step whose encode threw does: a failed probe changes nothing and the
\* loop follows; a failed loop attempt counts as one attempt and lowers the
\* ceiling to the quality tried minus one, as a too-large result does, leaving
\* the best candidate alone; a failed last resort ends the call with the
\* target-unreachable error.
FailureIsContained ==
    FailedEncodeStep =>
        /\ searchPc = "probe" =>
              /\ searchPc' = "loop"
              /\ UNCHANGED <<low, high, attempts, lastValid, lastSize, searchResult>>
        /\ LoopRunning =>
              /\ searchPc' = "loop"
              /\ high' = ((low + high) \div 2) - 1
              /\ attempts' = attempts + 1
              /\ UNCHANGED <<low, lastValid, lastSize, searchResult>>
        /\ (searchPc = "loop" /\ ~LoopRunning) =>
              /\ searchPc' = "done"
              /\ searchResult' = Thrown(lastSize)

\* C22: an encoder failure never leaves compressToTargetSize: a failed probe
\* is ignored, a failed loop attempt is one attempt treated like a too-large
\* result, a failed last resort is ignored, and the call ends only by
\* returning a buffer or by the target-unreachable error, which is how it
\* ends for an unsupported format.
C22_FailuresStayInside ==
    /\ [][FailureIsContained]_vars
    /\ [](searchResult.kind \in {"none", "buffer", "error"})
    /\ [](SearchDone <=> searchResult.kind # "none")
    /\ []((SearchDone /\ format \notin SupportedFormats) =>
              (searchResult = Thrown(Infinity) /\ encodes = Len(calls)))
    /\ [](~SearchDone => ENABLED SearchStep)

\* An unsupported format: the probe, every loop attempt and the last resort
\* threw, and the call ended with the target-unreachable error.
C22_Witness ==
    /\ TargetUnreachable
    /\ format = "gif"
    /\ lastCall.failed
    /\ calls[1].quality = 100
    /\ calls[Len(calls)].lastResort
    /\ attempts = Len(calls) - 2

(* ---------------------------------------------------------------------- *)
(* Claims about the fields the client sends (checked under SpecOptions)   *)
(* ---------------------------------------------------------------------- *)
\* The requests sent so far, each with the client state its pass started from.
SentRequests ==
    UNION {{[fields |-> sent[p][k].fields, client |-> passes[p].client] :
               k \in 1..Len(sent[p])} : p \in PassIds}

\* C23: the fields of a request do not depend on the 'Use Target File Size'
\* checkbox: two requests for the same file from client states that differ
\* only in the checkbox carry the same fields; targetFileSize always carries
\* the stored value, so with the stored value untouched (1000), checkbox set
\* or not, the handler takes the size-targeted branch whatever the quality.
C23_ToggleNotSent ==
    /\ \A r1, r2 \in SentRequests :
          (r1.fields.file = r2.fields.file /\ r1.client.options = r2.client.options)
              => r1.fields = r2.fields
    /\ \A r \in SentRequests :
          /\ ParseInt(r.fields.targetFileSize) = r.client.options.targetFileSize
          /\ ParseInt(r.fields.quality) = r.client.options.quality
          /\ r.fields.format = r.client.options.outputFormat
          /\ r.client.options.targetFileSize = 1000
                => (/\ r.fields.targetFileSize = <<"1", "0", "0", "0">>
                    /\ UsesTargetSize(ParseInt(r.fields.targetFileSize)))

\* Two requests for the same file with the same options, one sent with the
\* checkbox set and one with it not set, the target size never touched and
\* the quality moved to 50: both carry targetFileSize 1000.
C23_Witness ==
    /\ \E r1, r2 \in SentRequests :
          /\ r1.client.useTargetSize /\ ~r2.client.useTargetSize
          /\ r1.client.options = r2.client.options
          /\ r1.fields = r2.fields
          /\ r2.fields.targetFileSize = <<"1", "0", "0", "0">>
          /\ r2.fields.quality = <<"5", "0">>

====
